---- MODULE Spec2Model ----
(***************************************************************************)
(* Day-0 Dependency Guard (src/app.js, lines 1-248): the pull_request      *)
(* handler, the lockfile parsers and the helpers it calls.                 *)
(*                                                                         *)
(* Text is modelled by TLA+ strings (TLC evaluates Len, SubSeq and \o on   *)
(* them); a JavaScript value that is undefined, null or "" is the empty    *)
(* string "" wherever the code only tests it for truthiness.  The          *)
(* JavaScript Set `deps` is a sequence without repetitions, in insertion   *)
(* order, which is the order `for (const spec of deps)` iterates in.       *)
(***************************************************************************)
EXTENDS Integers, Sequences, FiniteSets, TLC

(***************************************************************************)
(* Program constants.                                                      *)
(***************************************************************************)
WINDOW_MS == 24 * 60 * 60 * 1000

MAX_VIOLATIONS == 100

SAFETY_CAP == 5000

(***************************************************************************)
(* Bounds of the model.                                                    *)
(***************************************************************************)
\* Entries of the monorepo-scale lockfile of the big world.
BigLockEntries == 6000

\* In the small world the content provider serves a document only while the
\* dependency set stays within this many entries.
MaxDeps == 2

(***************************************************************************)
(* String helpers: the String.prototype methods and regular-expression     *)
(* pieces the source uses.  Indices handed to or returned by the operators *)
(* named after JavaScript methods are JavaScript's (0-based, -1 = none).   *)
(***************************************************************************)
Range(s) == {s[i] : i \in 1..Len(s)}

Max(S) == CHOOSE m \in S : \A k \in S : k <= m

Min(S) == CHOOSE m \in S : \A k \in S : m <= k

\* The character of s at 1-based position i.
Ch(s, i) == SubSeq(s, i, i)

\* \s of a regular expression, over the characters the documents use.
IsWs(c) == c \in {" ", "\n", "\t", "\r"}

\* A character "." of a regular expression matches: no line terminator.
IsDot(c) == c \notin {"\n", "\r"}

\* 1-based positions at which sub occurs in s.
Occurrences(s, sub) ==
  {i \in 1..(Len(s) - Len(sub) + 1) : SubSeq(s, i, i + Len(sub) - 1) = sub}

includes(s, sub) == Occurrences(s, sub) # {}

startsWith(s, sub) == Len(sub) <= Len(s) /\ SubSeq(s, 1, Len(sub)) = sub

endsWith(s, sub) ==
  Len(sub) <= Len(s) /\ SubSeq(s, Len(s) - Len(sub) + 1, Len(s)) = sub

lastIndexOf(s, c) ==
  IF Occurrences(s, c) = {} THEN -1 ELSE Max(Occurrences(s, c)) - 1

\* s.slice(from, to) and s.slice(from) with non-negative arguments.
slice(s, from, to) == SubSeq(s, from + 1, to)

sliceFrom(s, from) == SubSeq(s, from + 1, Len(s))

\* s.split(sep) for a non-empty separator: the pieces between the
\* non-overlapping occurrences of sep, found left to right.
RECURSIVE split(_, _)
split(s, sep) ==
  IF Occurrences(s, sep) = {} THEN <<s>>
  ELSE LET i == Min(Occurrences(s, sep))
       IN <<SubSeq(s, 1, i - 1)>> \o split(SubSeq(s, i + Len(sep), Len(s)), sep)

\* s.trim()
trim(s) ==
  LET solid == {i \in 1..Len(s) : ~IsWs(Ch(s, i))}
  IN IF solid = {} THEN "" ELSE SubSeq(s, Min(solid), Max(solid))

\* s.replace(/^node_modules\//, "")
StripNodeModules(p) ==
  IF startsWith(p, "node_modules/") THEN sliceFrom(p, Len("node_modules/")) ELSE p

\* s.replace(/(^"|":?$)/g, ""): a leading quote goes, and so does a closing
\* quote (with the colon after it, if any) that ends the string.  The two
\* matches cannot share a character, so the second is sought in what the
\* first left.
StripKeyQuotes(s) ==
  LET a == IF startsWith(s, "\"") THEN sliceFrom(s, 1) ELSE s
  IN IF endsWith(a, "\":") THEN SubSeq(a, 1, Len(a) - 2)
     ELSE IF endsWith(a, "\"") THEN SubSeq(a, 1, Len(a) - 1)
     ELSE a

\* s.replace(/^"|"$/g, "")
StripQuotes(s) ==
  LET a == IF startsWith(s, "\"") THEN sliceFrom(s, 1) ELSE s
  IN IF endsWith(a, "\"") THEN SubSeq(a, 1, Len(a) - 1) ELSE a

(***************************************************************************)
(* The dependency set.                                                     *)
(***************************************************************************)
\* xs without the later repetitions of an element.
Uniq(xs) ==
  IF Cardinality(Range(xs)) = Len(xs) THEN xs
  ELSE LET ys == [i \in 1..Len(xs) |-> <<i, xs[i]>>]
           zs == SelectSeq(ys, LAMBDA p : \A j \in 1..(p[1] - 1) : xs[j] # p[2])
       IN [k \in 1..Len(zs) |-> zs[k][2]]

\* deps.add(x) for each x of xs in turn.
AddAll(deps, xs) ==
  LET old == Range(deps)
  IN deps \o SelectSeq(Uniq(xs), LAMBDA v : v \notin old)

\* `${name}@${version}`
SpecOf(name, version) == name \o "@" \o version

(***************************************************************************)
(* Parsers.  A parsed package-lock.json is a record                        *)
(*   [kind, lockfileVersion, name, packages, dependencies]                 *)
(* with kind "object", "null" or "scalar" (what JSON.parse returned),      *)
(* lockfileVersion 0 and name "" when the field is missing, packages the   *)
(* sequence Object.entries(lock.packages) of [key, version] and            *)
(* dependencies the sequence Object.entries(lock.dependencies) of          *)
(* [name, version, dependencies]; a missing version is "".                 *)
(***************************************************************************)
RECURSIVE walk(_)
walk(depMap) ==
  IF depMap = <<>> THEN <<>>
  ELSE LET info == Head(depMap)
       IN (IF info.version # "" THEN <<SpecOf(info.name, info.version)>> ELSE <<>>)
          \o walk(info.dependencies)
          \o walk(Tail(depMap))

collectFromNpmLockV1(lock, deps) == AddAll(deps, walk(lock.dependencies))

\* The name collectFromNpmLockV2Plus gives the entry stored under key p.
V2Name(lock, p) == IF p = "" THEN lock.name ELSE StripNodeModules(p)

\* Mutant of V2Adds: entries without a version are not skipped.
V2Adds_AnyEntry(lock, e) == V2Name(lock, e.key) # ""

\* Whether collectFromNpmLockV2Plus adds the entry e of lock.packages.
V2Adds(lock, e) == e.version # "" /\ V2Name(lock, e.key) # ""

collectFromNpmLockV2Plus(lock, deps) ==
  LET kept == SelectSeq(lock.packages, LAMBDA e : V2Adds(lock, e))
  IN AddAll(deps, [i \in 1..Len(kept) |->
                     SpecOf(V2Name(lock, kept[i].key), kept[i].version)])

\* lines[i].match(/^\s{2}([^:@\s][^:]*):\s*$/): the key m[1], or "" when the
\* line does not match.
PnpmKey(line) ==
  LET colons == Occurrences(line, ":")
      c == Min(colons)
  IN IF /\ Len(line) >= 4
        /\ IsWs(Ch(line, 1)) /\ IsWs(Ch(line, 2))
        /\ Ch(line, 3) \notin {":", "@"} /\ ~IsWs(Ch(line, 3))
        /\ colons # {}
        /\ c >= 4
        /\ \A j \in (c + 1)..Len(line) : IsWs(Ch(line, j))
     THEN SubSeq(line, 3, c - 1)
     ELSE ""

\* The matches of /version:\s+(.+)\s*$/ in line as <<p, k, m>>: "version:"
\* at position p, then k >= 1 blanks, then a group of m >= 1 characters,
\* then blanks to the end.
PnpmVersionMatches(line) ==
  {<<p, k, m>> \in Occurrences(line, "version:") \X (1..Len(line)) \X (1..Len(line)) :
     LET g == p + Len("version:") + k
     IN /\ g + m - 1 <= Len(line)
        /\ \A j \in (p + Len("version:"))..(g - 1) : IsWs(Ch(line, j))
        /\ \A j \in g..(g + m - 1) : IsDot(Ch(line, j))
        /\ \A j \in (g + m)..Len(line) : IsWs(Ch(line, j))}

\* lines[i + 1].match(/version:\s+(.+)\s*$/)?.[1]: the leftmost match, its
\* quantifiers greedy in turn; "" when there is none.
PnpmVersion(line) ==
  LET ms == PnpmVersionMatches(line)
      p == Min({t[1] : t \in ms})
      k == Max({t[2] : t \in {u \in ms : u[1] = p}})
      m == Max({t[3] : t \in {u \in ms : u[1] = p /\ u[2] = k}})
      g == p + Len("version:") + k
  IN IF ms = {} THEN "" ELSE SubSeq(line, g, g + m - 1)

collectFromPnpmLock(raw, deps) ==
  LET lines == split(raw, "\n")
      hit(i) == /\ PnpmKey(lines[i]) # ""
                /\ i + 1 <= Len(lines)
                /\ includes(lines[i + 1], "version:")
                /\ PnpmVersion(lines[i + 1]) # ""
      idx == SelectSeq([i \in 1..Len(lines) |-> i], hit)
  IN AddAll(deps, [n \in 1..Len(idx) |->
                     SpecOf(PnpmKey(lines[idx[n]]), PnpmVersion(lines[idx[n] + 1]))])

\* The matches of /version\s+"([^"]+)"/ in block as <<p, q, r>>: "version"
\* at p, blanks up to the opening quote at q, the closing quote at r, at
\* least one character and no quote between them.
YarnVersionMatches(block) ==
  {<<p, q, r>> \in Occurrences(block, "version") \X (1..Len(block)) \X (1..Len(block)) :
     /\ q > p + Len("version")
     /\ \A j \in (p + Len("version"))..(q - 1) : IsWs(Ch(block, j))
     /\ Ch(block, q) = "\""
     /\ r > q + 1
     /\ Ch(block, r) = "\""
     /\ \A j \in (q + 1)..(r - 1) : Ch(block, j) # "\""}

\* block.match(/version\s+"([^"]+)"/)?.[1], "" when there is no match.
YarnVersion(block) ==
  LET ms == YarnVersionMatches(block)
      p == Min({t[1] : t \in ms})
      t == CHOOSE u \in ms : u[1] = p
  IN IF ms = {} THEN "" ELSE SubSeq(block, t[2] + 1, t[3] - 1)

\* The name collectFromYarnLock derives from a stanza's first line.
YarnName(firstLine) ==
  LET key0 == StripKeyQuotes(firstLine)
      key == IF includes(key0, ", ") THEN split(key0, ", ")[1] ELSE key0
      parts == SelectSeq(split(key, "@"), LAMBDA x : x # "")
      at == lastIndexOf(key, "@")
      name == IF startsWith(key, "@")
              THEN (IF Len(parts) >= 2 THEN "@" \o parts[1] \o "/" \o parts[2] ELSE key)
              ELSE (IF at > 0 THEN slice(key, 0, at) ELSE key)
  IN trim(StripQuotes(name))

\* The entries collectFromYarnLock adds for one stanza: none or one.
YarnBlock(block) ==
  LET version == YarnVersion(block)
      name == YarnName(split(block, "\n")[1])
  IN IF version # "" /\ name # "" THEN <<SpecOf(name, version)>> ELSE <<>>

RECURSIVE Flatten(_)
Flatten(ss) == IF ss = <<>> THEN <<>> ELSE Head(ss) \o Flatten(Tail(ss))

collectFromYarnLock(raw, deps) ==
  LET blocks == split(raw, "\n\n")
  IN AddAll(deps, Flatten([b \in 1..Len(blocks) |-> YarnBlock(blocks[b])]))

(***************************************************************************)
(* Documents.  A document is what readTextFileFromRepo returns: null, or   *)
(* the text of a file.  JSON.parse is tabulated: beside its text a         *)
(* document carries what JSON.parse does with that text (throw, or the     *)
(* value it returns).                                                      *)
(***************************************************************************)
NoLock ==
  [kind |-> "none", lockfileVersion |-> 0, name |-> "",
   packages |-> <<>>, dependencies |-> <<>>]

null == [isNull |-> TRUE, text |-> "", throws |-> TRUE, value |-> NoLock]

\* A file that is not JSON.
Text(t) == [isNull |-> FALSE, text |-> t, throws |-> TRUE, value |-> NoLock]

\* A file whose text JSON.parse accepts, and the value it returns.
Json(t, v) == [isNull |-> FALSE, text |-> t, throws |-> FALSE, value |-> v]

Lock(ver, n, pk, dp) ==
  [kind |-> "object", lockfileVersion |-> ver, name |-> n,
   packages |-> pk, dependencies |-> dp]

Pkg(k, v) == [key |-> k, version |-> v]

Dep(n, v, d) == [name |-> n, version |-> v, dependencies |-> d]

\* npm 7+: the root package, a nested install and a link-only entry.
NpmV2Doc ==
  Json("{\"name\":\"app\",\"lockfileVersion\":3,\"packages\":{\"\":{\"name\":\"app\",\"version\":\"1.0.0\"},\"node_modules/a/node_modules/b\":{\"version\":\"2.0.0\"},\"node_modules/l\":{\"resolved\":\"l\",\"link\":true}}}",
       Lock(3, "app",
            <<Pkg("", "1.0.0"), Pkg("node_modules/a/node_modules/b", "2.0.0"),
              Pkg("node_modules/l", "")>>,
            <<>>))

\* npm 7+: a workspace in the directory app of a root package named app.
NpmV2WorkspaceDoc ==
  Json("{\"name\":\"app\",\"lockfileVersion\":3,\"packages\":{\"\":{\"name\":\"app\",\"version\":\"1.0.0\",\"workspaces\":[\"app\"]},\"app\":{\"name\":\"web\",\"version\":\"1.0.0\"}}}",
       Lock(3, "app", <<Pkg("", "1.0.0"), Pkg("app", "1.0.0")>>, <<>>))

\* npm 7+: no package at all.
NpmV2EmptyDoc ==
  Json("{\"name\":\"app\",\"lockfileVersion\":3,\"packages\":{}}",
       Lock(3, "app", <<>>, <<>>))

\* npm <= 6: a dependency with a nested dependency.
NpmV1Doc ==
  Json("{\"name\":\"app\",\"lockfileVersion\":1,\"dependencies\":{\"a\":{\"version\":\"1.0.0\",\"dependencies\":{\"b\":{\"version\":\"2.0.0\"}}}}}",
       Lock(1, "app", <<>>, <<Dep("a", "1.0.0", <<Dep("b", "2.0.0", <<>>)>>)>>))

\* npm <= 6: a dependency stored under the empty key.
NpmV1EmptyKeyDoc ==
  Json("{\"lockfileVersion\":1,\"dependencies\":{\"\":{\"version\":\"1.0.0\"}}}",
       Lock(1, "", <<>>, <<Dep("", "1.0.0", <<>>)>>))

NpmNullDoc == Json("null", [NoLock EXCEPT !.kind = "null"])

NpmScalarDoc == Json("5", [NoLock EXCEPT !.kind = "scalar"])

\* npm <= 6: one dependency.
NpmV1FlatDoc ==
  Json("{\"lockfileVersion\":1,\"dependencies\":{\"a\":{\"version\":\"1.0.0\"}}}",
       Lock(1, "", <<>>, <<Dep("a", "1.0.0", <<>>)>>))

\* A valid lockfile followed by the marker of an unresolved merge.
NpmGarbageTailDoc ==
  Text("{\"lockfileVersion\":1,\"dependencies\":{\"a\":{\"version\":\"1.0.0\"}}}\n>>>>>>> main\n")

NpmInvalidDoc == Text("{\"lockfileVersion\":")

Digit == <<"0", "1", "2", "3", "4", "5", "6", "7", "8", "9">>

\* The decimal numeral of i, four digits wide.
Numeral(i) ==
  Digit[((i \div 1000) % 10) + 1] \o Digit[((i \div 100) % 10) + 1]
    \o Digit[((i \div 10) % 10) + 1] \o Digit[(i % 10) + 1]

\* npm 7+: a lockfile of n entries, no two alike.
NpmBigDoc(n) ==
  Json("{\"name\":\"mono\",\"lockfileVersion\":3,\"packages\":{...}}",
       Lock(3, "mono",
            [i \in 1..n |-> Pkg("node_modules/p" \o Numeral(i), "1.0.0")],
            <<>>))

PnpmDoc == Text("packages:\n  a:\n    version: 1.0.0\n")

PnpmScopedDoc == Text("packages:\n  @s/n:\n    version: 2.0.0\n")

YarnScopedDoc ==
  Text("\"@babel/core@^7.0.0, @babel/core@^7.1.0\":\n  version \"7.2.0\"\n")

YarnDoc == Text("# yarn lockfile v1\n\nb@^2.0.0:\n  version \"2.0.0\"\n")

YarnCommentDoc == Text("# yarn lockfile v1\n")

EmptyFile == Text("")

(***************************************************************************)
(* The environment an invocation runs in.  In the small world the content  *)
(* provider serves small documents of every shape and the registry may     *)
(* answer a lookup in any way; in the big world the repository holds a     *)
(* monorepo-scale lockfile and every version was published an hour ago.    *)
(* Two invocations that run side by side (ConcSpec) are given the pair     *)
(* world: one document per lockfile path, which is served or not, and a    *)
(* registry that reports a version as an hour or as two days old.          *)
(***************************************************************************)
Worlds == {"small", "big"}

NpmDocs(w) ==
  IF w = "pair" THEN {NpmV1FlatDoc}
  ELSE IF w = "big" THEN {NpmBigDoc(SAFETY_CAP), NpmBigDoc(BigLockEntries)}
  ELSE {NpmV2Doc, NpmV2WorkspaceDoc, NpmV2EmptyDoc, NpmV1Doc, NpmV1EmptyKeyDoc,
        NpmV1FlatDoc, NpmNullDoc, NpmScalarDoc, NpmGarbageTailDoc, NpmInvalidDoc}

PnpmDocs(w) == IF w \in {"big", "pair"} THEN {PnpmDoc} ELSE {PnpmDoc, PnpmScopedDoc}

YarnDocs(w) ==
  IF w = "pair" THEN {YarnDoc}
  ELSE IF w = "big" THEN {} ELSE {YarnScopedDoc, YarnDoc, YarnCommentDoc, EmptyFile}

\* The documents the file at path may hold.
Docs(w, path) ==
  IF endsWith(path, "package-lock.json") THEN NpmDocs(w)
  ELSE IF endsWith(path, "pnpm-lock.yaml") THEN PnpmDocs(w)
  ELSE YarnDocs(w)

\* What octokit.repos.getContent and the fetch of download_url may do for
\* the file at path.  content is the decoded base64 content.
Responses(w, path) ==
  IF w = "pair"
  THEN {[getContent |-> "throws", isArray |-> FALSE, content |-> null,
         download |-> "none", body |-> null]}
       \cup {[getContent |-> "ok", isArray |-> FALSE, content |-> d,
              download |-> "none", body |-> null] : d \in Docs(w, path)}
  ELSE
  {[getContent |-> "throws", isArray |-> FALSE, content |-> null,
    download |-> "none", body |-> null],
   [getContent |-> "ok", isArray |-> TRUE, content |-> null,
    download |-> "none", body |-> null],
   [getContent |-> "ok", isArray |-> FALSE, content |-> null,
    download |-> "none", body |-> null],
   [getContent |-> "ok", isArray |-> FALSE, content |-> null,
    download |-> "not_ok", body |-> null],
   [getContent |-> "ok", isArray |-> FALSE, content |-> null,
    download |-> "throws", body |-> null]}
  \cup {[getContent |-> "ok", isArray |-> FALSE, content |-> d,
         download |-> "none", body |-> null] : d \in Docs(w, path)}
  \cup {[getContent |-> "ok", isArray |-> FALSE, content |-> null,
         download |-> "ok", body |-> d] : d \in Docs(w, path)}

Blob(p) == [type |-> "blob", path |-> p]

Tree(p) == [type |-> "tree", path |-> p]

\* The listings octokit.git.getTree may return (data.tree).
Trees(w) ==
  IF w = "pair" THEN {<<Blob("a/package-lock.json"), Blob("b/yarn.lock")>>}
  ELSE IF w = "big"
  THEN {<<Blob("a/package-lock.json"), Blob("c/pnpm-lock.yaml")>>}
  ELSE {<<>>,
        <<Tree("src"), Blob("README.md"), Blob("src/myyarn.lock")>>,
        <<Tree("a"), Blob("a/package-lock.json"), Tree("yarn.lock"),
          Blob("b/yarn.lock")>>,
        <<Blob("c/pnpm-lock.yaml"), Blob("package-lock.json")>>}

\* Date.now() when the freshness phase starts: twenty days after the epoch,
\* which TLC's 32-bit integers hold.
ClockNow == 20 * WINDOW_MS

NoTs == [present |-> FALSE, valid |-> FALSE, ms |-> 0]

\* A publish time the registry reports: a date string, or one that
\* new Date() cannot read.
Ts(t) == [present |-> TRUE, valid |-> TRUE, ms |-> t]

BadTs == [present |-> TRUE, valid |-> FALSE, ms |-> 0]

HourMs == 60 * 60 * 1000

Answer(f, o, t) == [fetch |-> f, ok |-> o, time |-> t]

\* What the registry may do when asked for a package of which `version`
\* is wanted: fetch rejects; a non-success status; metadata whose `time`
\* lists another version only; metadata with a time for `version`.
RegistryAnswers(w, version) ==
  IF w = "pair"
  THEN {Answer("responds", TRUE, <<[version |-> version, ts |-> t]>>) :
          t \in {Ts(ClockNow - HourMs), Ts(ClockNow - 48 * HourMs)}}
  ELSE IF w = "big"
  THEN {Answer("responds", TRUE, <<[version |-> version, ts |-> Ts(ClockNow - HourMs)]>>)}
  ELSE {Answer("throws", FALSE, <<>>),
        Answer("responds", FALSE, <<>>),
        Answer("responds", TRUE, <<[version |-> "0.0.0-other", ts |-> Ts(ClockNow - HourMs)]>>)}
       \cup {Answer("responds", TRUE, <<[version |-> version, ts |-> t]>>) :
               t \in {Ts(ClockNow - HourMs), Ts(ClockNow - WINDOW_MS),
                      Ts(ClockNow - 48 * HourMs), BadTs}}

(***************************************************************************)
(* Helpers of the handler.                                                 *)
(***************************************************************************)
\* readTextFileFromRepo: the text of the file, or null.
readTextFileFromRepo(res) ==
  IF res.getContent = "throws" THEN null
  ELSE IF res.isArray THEN null
  ELSE IF ~res.content.isNull /\ res.content.text # "" THEN res.content
  ELSE IF res.download = "throws" THEN null
  ELSE IF res.download = "ok" THEN res.body
  ELSE null

\* The way readTextFileFromRepo took through its branches for res.
Transport(res) ==
  IF res.getContent = "throws" THEN "getContent throws"
  ELSE IF res.isArray THEN "directory"
  ELSE IF ~res.content.isNull /\ res.content.text # "" THEN "content"
  ELSE IF res.download = "throws" THEN "download throws"
  ELSE IF res.download = "ok" THEN "download"
  ELSE IF res.download = "not_ok" THEN "download not ok"
  ELSE "no content"

\* Mutant of Falsy: only the empty text is skipped, null is parsed.
Falsy_OnlyEmptyText(raw) == ~raw.isNull /\ raw.text = ""

\* if (!raw) continue
Falsy(raw) == raw.isNull \/ raw.text = ""

\* The blob paths of a tree that
\* /(?:^|\/)(package-lock\.json|pnpm-lock\.yaml|yarn\.lock)$/ matches.
IsLockfilePath(path) ==
  \E b \in {"package-lock.json", "pnpm-lock.yaml", "yarn.lock"} :
    path = b \/ endsWith(path, "/" \o b)

findLockfiles(tree) ==
  LET paths == [i \in 1..Len(tree) |-> tree[i]]
      kept == SelectSeq(paths, LAMBDA item : item.type = "blob" /\ IsLockfilePath(item.path))
  IN [i \in 1..Len(kept) |-> kept[i].path]

\* lock.lockfileVersion && lock.lockfileVersion >= 2
IsV2Plus(lock) == lock.lockfileVersion # 0 /\ lock.lockfileVersion >= 2

\* Mutant of ParsePackageLock: a lockfile that fails to parse empties the
\* set.
ParsePackageLock_Discard(raw, deps) ==
  IF raw.throws \/ raw.value.kind = "null"
  THEN [ok |-> FALSE, deps |-> <<>>]
  ELSE [ok |-> TRUE,
        deps |-> IF IsV2Plus(raw.value)
                 THEN collectFromNpmLockV2Plus(raw.value, deps)
                 ELSE collectFromNpmLockV1(raw.value, deps)]

\* The try block around JSON.parse: whether it ran to its end, and deps
\* after it.  JSON.parse may throw, and so does reading a property of null.
ParsePackageLock(raw, deps) ==
  IF raw.throws \/ raw.value.kind = "null"
  THEN [ok |-> FALSE, deps |-> deps]
  ELSE [ok |-> TRUE,
        deps |-> IF IsV2Plus(raw.value)
                 THEN collectFromNpmLockV2Plus(raw.value, deps)
                 ELSE collectFromNpmLockV1(raw.value, deps)]

\* The body of the root loop for a file that was read.
ParseRoot(rootPath, raw, deps) ==
  IF rootPath = "package-lock.json" THEN ParsePackageLock(raw, deps)
  ELSE IF rootPath = "pnpm-lock.yaml"
  THEN [ok |-> TRUE, deps |-> collectFromPnpmLock(raw.text, deps)]
  ELSE IF rootPath = "yarn.lock"
  THEN [ok |-> TRUE, deps |-> collectFromYarnLock(raw.text, deps)]
  ELSE [ok |-> TRUE, deps |-> deps]

\* The body of the fallback loop for a file that was read.
ParseFallback(lf, raw, deps) ==
  IF endsWith(lf, "package-lock.json") THEN ParsePackageLock(raw, deps)
  ELSE IF endsWith(lf, "pnpm-lock.yaml")
  THEN [ok |-> TRUE, deps |-> collectFromPnpmLock(raw.text, deps)]
  ELSE IF endsWith(lf, "yarn.lock")
  THEN [ok |-> TRUE, deps |-> collectFromYarnLock(raw.text, deps)]
  ELSE [ok |-> TRUE, deps |-> deps]

RootPaths == <<"package-lock.json", "pnpm-lock.yaml", "yarn.lock">>

\* Mutant of ScanNeeded: the tree is scanned whatever the fast path found.
ScanNeeded_Always(deps) == TRUE

\* if (!deps.size) before the full-tree scan.
ScanNeeded(deps) == Len(deps) = 0

\* if (!deps.size) before the neutral report.
IsEmpty(deps) == Len(deps) = 0

\* Mutant of OverCap: >= in place of >.
OverCap_Inclusive(deps) == Len(deps) >= SAFETY_CAP

\* if (deps.size > 5000) break
OverCap(deps) == Len(deps) > SAFETY_CAP

\* const name = spec.slice(0, at), with at = spec.lastIndexOf("@")
SplitName(spec) == slice(spec, 0, lastIndexOf(spec, "@"))

\* const version = spec.slice(at + 1)
SplitVersion(spec) == sliceFrom(spec, lastIndexOf(spec, "@") + 1)

\* meta?.time?.[version]
TimeOf(meta, version) ==
  LET hits == SelectSeq(meta.time, LAMBDA e : e.version = version)
  IN IF hits = <<>> THEN NoTs ELSE hits[1].ts

\* Mutant of IsFresh: <= in place of <.
IsFresh_Inclusive(now, ts) == ts.valid /\ now - ts.ms <= WINDOW_MS

\* now - new Date(ts).getTime() < WINDOW_MS; a comparison with NaN is false.
IsFresh(now, ts) == ts.valid /\ now - ts.ms < WINDOW_MS

\* Whether the lookup that got answer `meta` for `version` records a
\* violation.
RecordsViolation(meta, version, now) ==
  /\ meta.fetch = "responds"
  /\ meta.ok
  /\ TimeOf(meta, version).present
  /\ IsFresh(now, TimeOf(meta, version))

\* Mutant of AtViolationCap: > in place of >=.
AtViolationCap_Late(violations) == Len(violations) > MAX_VIOLATIONS

\* if (violations.length >= MAX_VIOLATIONS) break
AtViolationCap(violations) == Len(violations) >= MAX_VIOLATIONS

\* Mutant of LoopContinues: the try/catch stands around the loop, so that a
\* rejected fetch ends it.
LoopContinues_AbortOnError(meta, hit, violations) ==
  meta.fetch = "responds" /\ ~(hit /\ Len(violations) >= MAX_VIOLATIONS)

\* Whether the loop over deps goes on to the next entry after a request
\* answered by meta: a rejected fetch, a non-success status and a missing
\* time are caught or skipped inside the loop; only the violation cap,
\* tested when a violation was pushed, breaks out of it.
LoopContinues(meta, hit, violations) == ~(hit /\ AtViolationCap(violations))

\* Mutant of Conclusion: the check succeeds whatever was found.
Conclusion_AlwaysSuccess(violations) == "success"

\* conclusion: violations.length ? "failure" : "success"
Conclusion(violations) == IF Len(violations) # 0 THEN "failure" ELSE "success"

Badge(violations) ==
  IF Len(violations) # 0 THEN "Day-0 packages found" ELSE "No Day-0 packages"

(***************************************************************************)
(* One invocation of the pull_request handler.                             *)
(*   pc          where the handler stands (the await it is at)             *)
(*   world       the environment of the invocation                         *)
(*   check       the check run at the sink: status, conclusion, summary    *)
(*   deps        the dependency set                                        *)
(*   rootIdx     the root candidate the fast path is at                    *)
(*   lockfiles   what findLockfiles returned; lfIdx the one being read     *)
(*   now         Date.now() of the freshness phase                         *)
(*   depIdx      the entry of deps the freshness loop is at                *)
(*   violations  the violation list                                        *)
(*   reads       log: every lockfile read, with what became of it (and,    *)
(*               for the latest, how it was transported and its text)      *)
(*   scans       log: calls of getCommit and getTree, and which rejected   *)
(*   lookups     log: every registry request, with its answer              *)
(*   comments    log: comments posted on the pull request                  *)
(*   updates     log: checks.update calls that succeeded                   *)
(*   fault       the call whose rejection ended the handler, or "none"     *)
(* These describe the invocation that is running.  parked is a second      *)
(* invocation, suspended at an await (see ConcSpec): the same fields, as a  *)
(* record.                                                                 *)
(***************************************************************************)
VARIABLES pc, world, check, deps, rootIdx, lockfiles, lfIdx, now, depIdx,
          violations, reads, scans, lookups, comments, updates, fault,
          input, output, parked

handlerVars == <<pc, world, check, deps, rootIdx, lockfiles, lfIdx, now, depIdx,
                 violations, reads, scans, lookups, comments, updates, fault>>

\* A parser called on its own: the document it is given and the set it
\* leaves (see ParserSpec); idle while the handler runs.
parserVars == <<input, output>>

vars == <<handlerVars, parserVars, parked>>

NoInput ==
  [dialect |-> "none", text |-> "", lock |-> NoLock,
   scope |-> "", name |-> "", version |-> ""]

NoOutput == [applied |-> FALSE, deps |-> <<>>]

NoCheck == [status |-> "none", conclusion |-> "none", summary |-> ""]

\* An invocation of the handler at its entry, in world w.
Entry(w) ==
  [pc |-> "start", world |-> w, check |-> NoCheck, deps |-> <<>>, rootIdx |-> 1,
   lockfiles |-> <<>>, lfIdx |-> 1, now |-> 0, depIdx |-> 1, violations |-> <<>>,
   reads |-> <<>>, scans |-> [getCommit |-> 0, getTree |-> 0, error |-> "none"],
   lookups |-> <<>>, comments |-> <<>>, updates |-> <<>>, fault |-> "none"]

\* No second invocation.
NoInvocation == [Entry("small") EXCEPT !.pc = "none"]

Init ==
  /\ pc = "start"
  /\ world \in Worlds
  /\ check = NoCheck
  /\ deps = <<>>
  /\ rootIdx = 1
  /\ lockfiles = <<>>
  /\ lfIdx = 1
  /\ now = 0
  /\ depIdx = 1
  /\ violations = <<>>
  /\ reads = <<>>
  /\ scans = [getCommit |-> 0, getTree |-> 0, error |-> "none"]
  /\ lookups = <<>>
  /\ comments = <<>>
  /\ updates = <<>>
  /\ fault = "none"
  /\ input = NoInput
  /\ output = NoOutput
  /\ parked = NoInvocation

\* The environment serves the document only while the set stays small.
WithinBound(d) == world = "small" => Len(d) <= MaxDeps

\* The log keeps the transport and the text of the latest read only.
Forget(rs) == [i \in 1..Len(rs) |-> [rs[i] EXCEPT !.transport = "", !.text = ""]]

\* What a read came to.
ReadResult(raw, parsed) ==
  IF Falsy(raw) THEN "absent" ELSE IF parsed.ok THEN "parsed" ELSE "failed"

\* Mutant of AfterCollection: the neutral path posts no comment.
AfterCollection_NoComment(d) == IF IsEmpty(d) THEN "neutral_update" ELSE "fresh"

\* Where the handler goes when lockfile collection is over: to the neutral
\* report when deps is empty, to the freshness phase otherwise.
AfterCollection(d) == IF IsEmpty(d) THEN "neutral_comment" ELSE "fresh"

\* const now = Date.now(), read when the freshness phase is entered.
NowAfter(d) == IF IsEmpty(d) THEN 0 ELSE ClockNow

\* Mutant of OnDiscoveryError: the catch goes on with the report, not with
\* the test of deps.size.
OnDiscoveryError_Report(d) == "comment"

\* Mutant of OnDiscoveryError: no catch, the rejection leaves the handler.
OnDiscoveryError_Uncaught(d) == "faulted"

\* catch (e) around lockfile discovery: the error is logged and the handler
\* goes on after the try block.
OnDiscoveryError(d) == AfterCollection(d)

\* The handler throws out of an await of the sink: an unhandled rejection.
Throw(call) ==
  /\ pc' = "faulted"
  /\ fault' = call

\* await ctx.octokit.checks.create({... status: "in_progress"})
CreateCheck ==
  /\ pc = "start"
  /\ \/ /\ check' = [status |-> "in_progress", conclusion |-> "none", summary |-> ""]
        /\ pc' = "root"
        /\ UNCHANGED fault
     \/ /\ Throw("checks.create")
        /\ UNCHANGED check
  /\ UNCHANGED <<world, deps, rootIdx, lockfiles, lfIdx, now, depIdx, violations,
                 reads, scans, lookups, comments, updates>>
  /\ UNCHANGED <<parserVars, parked>>

\* One turn of the loop over the root candidates.
ReadRoot ==
  /\ pc = "root"
  /\ \E res \in Responses(world, RootPaths[rootIdx]) :
       LET raw == readTextFileFromRepo(res)
           parsed == IF Falsy(raw) THEN [ok |-> FALSE, deps |-> deps]
                     ELSE ParseRoot(RootPaths[rootIdx], raw, deps)
       IN /\ WithinBound(parsed.deps)
          /\ deps' = parsed.deps
          /\ reads' = Append(Forget(reads), [phase |-> "root", path |-> RootPaths[rootIdx],
                                     transport |-> Transport(res), text |-> raw.text,
                                     result |-> ReadResult(raw, parsed),
                                     before |-> Len(deps), after |-> Len(parsed.deps)])
          /\ IF rootIdx < Len(RootPaths)
             THEN /\ rootIdx' = rootIdx + 1
                  /\ pc' = "root"
                  /\ now' = now
             ELSE /\ rootIdx' = rootIdx
                  /\ pc' = IF ScanNeeded(parsed.deps) THEN "scan" ELSE AfterCollection(parsed.deps)
                  /\ now' = NowAfter(parsed.deps)
  /\ UNCHANGED <<world, check, lockfiles, lfIdx, depIdx, violations, scans,
                 lookups, comments, updates, fault>>
  /\ UNCHANGED <<parserVars, parked>>

\* await findLockfiles(...): getCommit, then getTree; a rejection of either
\* is caught by the handler's catch around lockfile discovery.
FindLockfiles ==
  /\ pc = "scan"
  /\ \/ /\ scans' = [getCommit |-> scans.getCommit + 1, getTree |-> scans.getTree,
                      error |-> "getCommit"]
        /\ lockfiles' = lockfiles
        /\ pc' = OnDiscoveryError(deps)
     \/ /\ scans' = [getCommit |-> scans.getCommit + 1, getTree |-> scans.getTree + 1,
                      error |-> "getTree"]
        /\ lockfiles' = lockfiles
        /\ pc' = OnDiscoveryError(deps)
     \/ \E tree \in Trees(world) :
          /\ scans' = [getCommit |-> scans.getCommit + 1, getTree |-> scans.getTree + 1,
                        error |-> "none"]
          /\ lockfiles' = findLockfiles(tree)
          /\ pc' = IF findLockfiles(tree) = <<>> THEN AfterCollection(deps) ELSE "fallback"
  /\ now' = NowAfter(deps)
  /\ UNCHANGED <<world, check, deps, rootIdx, lfIdx, depIdx, violations, reads,
                 lookups, comments, updates, fault>>
  /\ UNCHANGED <<parserVars, parked>>

\* One turn of the loop over the lockfiles of the tree.
ReadFallback ==
  /\ pc = "fallback"
  /\ \E res \in Responses(world, lockfiles[lfIdx]) :
       LET raw == readTextFileFromRepo(res)
           parsed == IF Falsy(raw) THEN [ok |-> FALSE, deps |-> deps]
                     ELSE ParseFallback(lockfiles[lfIdx], raw, deps)
           more == lfIdx < Len(lockfiles) /\ (Falsy(raw) \/ ~OverCap(parsed.deps))
       IN /\ WithinBound(parsed.deps)
          /\ deps' = parsed.deps
          /\ reads' = Append(Forget(reads), [phase |-> "fallback", path |-> lockfiles[lfIdx],
                                     transport |-> Transport(res), text |-> raw.text,
                                     result |-> ReadResult(raw, parsed),
                                     before |-> Len(deps), after |-> Len(parsed.deps)])
          /\ IF more
             THEN /\ lfIdx' = lfIdx + 1
                  /\ pc' = "fallback"
                  /\ now' = now
             ELSE /\ lfIdx' = lfIdx
                  /\ pc' = AfterCollection(parsed.deps)
                  /\ now' = NowAfter(parsed.deps)
  /\ UNCHANGED <<world, check, rootIdx, lockfiles, depIdx, violations, scans,
                 lookups, comments, updates, fault>>
  /\ UNCHANGED <<parserVars, parked>>

\* await createComment(... "lockfile not parsed" ...)
NeutralComment ==
  /\ pc = "neutral_comment"
  /\ \/ /\ comments' = Append(comments, "lockfile not parsed")
        /\ pc' = "neutral_update"
        /\ UNCHANGED fault
     \/ /\ Throw("issues.createComment")
        /\ UNCHANGED comments
  /\ UNCHANGED <<world, check, deps, rootIdx, lockfiles, lfIdx, now, depIdx,
                 violations, reads, scans, lookups, updates>>
  /\ UNCHANGED <<parserVars, parked>>

\* await checks.update({... conclusion: "neutral" ...}); return
NeutralUpdate ==
  /\ pc = "neutral_update"
  /\ \/ /\ check' = [status |-> "completed", conclusion |-> "neutral",
                     summary |-> "No lockfile parsed"]
        /\ updates' = Append(updates, "neutral")
        /\ pc' = "done"
        /\ UNCHANGED fault
     \/ /\ Throw("checks.update")
        /\ UNCHANGED <<check, updates>>
  /\ UNCHANGED <<world, deps, rootIdx, lockfiles, lfIdx, now, depIdx, violations,
                 reads, scans, lookups, comments>>
  /\ UNCHANGED <<parserVars, parked>>

\* One turn of the loop over deps: the split at the last "@", the registry
\* request and what is made of its answer.
Lookup ==
  /\ pc = "fresh"
  /\ LET spec == deps[depIdx]
         at == lastIndexOf(spec, "@")
         name == SplitName(spec)
         version == SplitVersion(spec)
     IN IF at <= 0
        THEN /\ lookups' = lookups
             /\ violations' = violations
             /\ IF depIdx < Len(deps)
                THEN depIdx' = depIdx + 1 /\ pc' = "fresh"
                ELSE depIdx' = depIdx /\ pc' = "comment"
        ELSE \E meta \in RegistryAnswers(world, version) :
               LET hit == RecordsViolation(meta, version, now)
                   vs == IF hit
                         THEN Append(violations,
                                     [name |-> name, version |-> version,
                                      ts |-> TimeOf(meta, version)])
                         ELSE violations
               IN /\ lookups' = Append(lookups, [spec |-> spec, name |-> name,
                                                 version |-> version, meta |-> meta])
                  /\ violations' = vs
                  /\ IF depIdx < Len(deps) /\ LoopContinues(meta, hit, vs)
                     THEN depIdx' = depIdx + 1 /\ pc' = "fresh"
                     ELSE depIdx' = depIdx /\ pc' = "comment"
  /\ UNCHANGED <<world, check, deps, rootIdx, lockfiles, lfIdx, now, reads,
                 scans, comments, updates, fault>>
  /\ UNCHANGED <<parserVars, parked>>

\* await createComment(... badge, table ...)
ReportComment ==
  /\ pc = "comment"
  /\ \/ /\ comments' = Append(comments, Badge(violations))
        /\ pc' = "update"
        /\ UNCHANGED fault
     \/ /\ Throw("issues.createComment")
        /\ UNCHANGED comments
  /\ UNCHANGED <<world, check, deps, rootIdx, lockfiles, lfIdx, now, depIdx,
                 violations, reads, scans, lookups, updates>>
  /\ UNCHANGED <<parserVars, parked>>

\* await checks.update({... conclusion: failure or success ...})
ReportUpdate ==
  /\ pc = "update"
  /\ \/ /\ check' = [status |-> "completed", conclusion |-> Conclusion(violations),
                     summary |-> Badge(violations)]
        /\ updates' = Append(updates, Conclusion(violations))
        /\ pc' = "done"
        /\ UNCHANGED fault
     \/ /\ Throw("checks.update")
        /\ UNCHANGED <<check, updates>>
  /\ UNCHANGED <<world, deps, rootIdx, lockfiles, lfIdx, now, depIdx, violations,
                 reads, scans, lookups, comments>>
  /\ UNCHANGED <<parserVars, parked>>

Next ==
  \/ CreateCheck
  \/ ReadRoot
  \/ FindLockfiles
  \/ ReadFallback
  \/ NeutralComment
  \/ NeutralUpdate
  \/ Lookup
  \/ ReportComment
  \/ ReportUpdate

Spec == Init /\ [][Next]_vars

\* Every await of the handler settles: the call returns or rejects.
LiveSpec == Spec /\ WF_vars(Next)

(***************************************************************************)
(* Two invocations of the handler.  The event loop runs one invocation at  *)
(* a time and may change over to the other whenever the running one is at  *)
(* an await, which is where every action above ends.  All the state of an  *)
(* invocation is declared inside the handler (const check, deps, now,      *)
(* violations and the loop variables), so an invocation that is resumed    *)
(* finds it as it left it; the module declares nothing mutable.            *)
(***************************************************************************)
\* The running invocation as a record.
Current ==
  [pc |-> pc, world |-> world, check |-> check, deps |-> deps, rootIdx |-> rootIdx,
   lockfiles |-> lockfiles, lfIdx |-> lfIdx, now |-> now, depIdx |-> depIdx,
   violations |-> violations, reads |-> reads, scans |-> scans,
   lookups |-> lookups, comments |-> comments, updates |-> updates, fault |-> fault]

\* Mutant of ResumedDeps: deps declared at module level, one set for all
\* invocations.
ResumedDeps_ModuleLevel(own, other) == other

\* const deps = new Set() stands inside the handler: the invocation that is
\* resumed goes on with its own set, not with the one the other invocation
\* was working on.
ResumedDeps(own, other) == own

ConcInit ==
  /\ pc = "start"
  /\ world = "pair"
  /\ check = NoCheck
  /\ deps = <<>>
  /\ rootIdx = 1
  /\ lockfiles = <<>>
  /\ lfIdx = 1
  /\ now = 0
  /\ depIdx = 1
  /\ violations = <<>>
  /\ reads = <<>>
  /\ scans = [getCommit |-> 0, getTree |-> 0, error |-> "none"]
  /\ lookups = <<>>
  /\ comments = <<>>
  /\ updates = <<>>
  /\ fault = "none"
  /\ input = NoInput
  /\ output = NoOutput
  /\ parked = Entry("pair")

\* The running invocation is suspended at its await and the other one is
\* resumed.
Switch ==
  /\ parked.pc # "none"
  /\ parked' = Current
  /\ pc' = parked.pc
  /\ world' = parked.world
  /\ check' = parked.check
  /\ deps' = ResumedDeps(parked.deps, deps)
  /\ rootIdx' = parked.rootIdx
  /\ lockfiles' = parked.lockfiles
  /\ lfIdx' = parked.lfIdx
  /\ now' = parked.now
  /\ depIdx' = parked.depIdx
  /\ violations' = parked.violations
  /\ reads' = parked.reads
  /\ scans' = parked.scans
  /\ lookups' = parked.lookups
  /\ comments' = parked.comments
  /\ updates' = parked.updates
  /\ fault' = parked.fault
  /\ UNCHANGED parserVars

ConcNext ==
  \/ Next
  \/ Switch

ConcSpec == ConcInit /\ [][ConcNext]_vars

(***************************************************************************)
(* The parsers on their own: a document drawn from a bounded family, and   *)
(* the parser of its dialect called on it with an empty set.               *)
(***************************************************************************)
\* A yarn-classic stanza for the scoped package @scope/name resolved to
\* version: the header is the selector @scope/name@range, followed when
\* alt holds by a second selector of the same package; quoting "whole" puts
\* one pair of quotes around the header, "each" one around every selector.
YarnStanza(scope, name, range, alt, quoting, version) ==
  LET sel1 == "@" \o scope \o "/" \o name \o "@" \o range
      sel2 == "@" \o scope \o "/" \o name \o "@^0.9.0"
      sep == IF quoting = "each" THEN "\", \"" ELSE ", "
      header == "\"" \o sel1 \o (IF alt THEN sep \o sel2 ELSE "") \o "\":"
  IN header \o "\n  version \"" \o version \o "\"\n  resolved \"https://r/x.tgz\"\n"

YarnInputs ==
  {[dialect |-> "yarn",
    text |-> YarnStanza(sc, n, r, alt, q, v),
    lock |-> NoLock, scope |-> sc, name |-> n, version |-> v] :
     sc \in {"babel", "s"}, n \in {"core", "n"}, r \in {"^7.0.0", "1.x"},
     alt \in BOOLEAN, q \in {"whole", "each"}, v \in {"7.2.0", "1.0.0"}}

\* The install paths a well-formed npm 7+ lockfile of the package app may
\* hold: the root, installed packages (one nested), a workspace directory.
V2Keys ==
  <<"", "node_modules/a", "node_modules/a/node_modules/b", "node_modules/app", "app">>

\* What may be stored under a key: nothing (the key is missing), an entry
\* without version (a link), or an entry with a version.
V2Entries == {"missing", "link", "1.0.0", "2.0.0"}

\* The lockfile that holds, for each key, the entry `pick` gives it.
V2LockOf(pick) ==
  LET present == SelectSeq(V2Keys, LAMBDA k : pick[k] # "missing")
  IN Lock(3, "app",
          [i \in 1..Len(present) |->
             Pkg(present[i], IF pick[present[i]] = "link" THEN "" ELSE pick[present[i]])],
          <<>>)

V2Inputs ==
  {[dialect |-> "npm-v2plus", text |-> "", lock |-> V2LockOf(pick),
    scope |-> "", name |-> "app", version |-> ""] :
     pick \in [Range(V2Keys) -> V2Entries]}

\* An npm <= 6 lockfile with the one dependency n, locked at v: a semver
\* version, an npm alias or a git URL.
V1Inputs ==
  {[dialect |-> "npm-v1", text |-> "", lock |-> Lock(1, "", <<>>, <<Dep(n, v, <<>>)>>),
    scope |-> "", name |-> n, version |-> v] :
     n \in {"a", "@s/n"},
     v \in {"1.0.0", "npm:b@2.0.0", "git+ssh://git@github.com/u/a.git#1f"}}

\* A pnpm-lock.yaml with one key line and the line after it:
\*   "pair"        a two-space-indented key, then its version field
\*   "crlf"        the same, with CRLF line ends
\*   "deep"        the key indented by four spaces
\*   "no_version"  the line after the key holds another field
\*   "inline"      the key line holds a value after the colon
PnpmStanza(key, shape, v) ==
  IF shape = "pair" THEN "packages:\n  " \o key \o ":\n    version: " \o v \o "\n"
  ELSE IF shape = "crlf"
  THEN "packages:\r\n  " \o key \o ":\r\n    version: " \o v \o "\r\n"
  ELSE IF shape = "deep"
  THEN "importers:\n    " \o key \o ":\n      version: " \o v \o "\n"
  ELSE IF shape = "no_version"
  THEN "packages:\n  " \o key \o ":\n    resolution: " \o v \o "\n"
  ELSE "packages:\n  " \o key \o ": x\n    version: " \o v \o "\n"

PnpmShapes == {"pair", "crlf", "deep", "no_version", "inline"}

PnpmInputs ==
  {[dialect |-> "pnpm", text |-> PnpmStanza(k, sh, v), lock |-> NoLock,
    scope |-> "", name |-> k, version |-> v, shape |-> sh] :
     k \in {"a", "/b", "@s/n"}, sh \in PnpmShapes, v \in {"1.0.0", "2.0.0"}}

ParserInit ==
  /\ pc = "idle"
  /\ world = "small"
  /\ check = NoCheck
  /\ deps = <<>>
  /\ rootIdx = 1
  /\ lockfiles = <<>>
  /\ lfIdx = 1
  /\ now = 0
  /\ depIdx = 1
  /\ violations = <<>>
  /\ reads = <<>>
  /\ scans = [getCommit |-> 0, getTree |-> 0, error |-> "none"]
  /\ lookups = <<>>
  /\ comments = <<>>
  /\ updates = <<>>
  /\ fault = "none"
  /\ input \in YarnInputs \cup V2Inputs \cup V1Inputs \cup PnpmInputs
  /\ output = NoOutput
  /\ parked = NoInvocation

\* collectFromYarnLock(raw, new Set())
ApplyYarn ==
  /\ input.dialect = "yarn"
  /\ ~output.applied
  /\ output' = [applied |-> TRUE, deps |-> collectFromYarnLock(input.text, <<>>)]
  /\ UNCHANGED <<handlerVars, input, parked>>

\* collectFromNpmLockV2Plus(lock, new Set())
ApplyNpmV2Plus ==
  /\ input.dialect = "npm-v2plus"
  /\ ~output.applied
  /\ output' = [applied |-> TRUE, deps |-> collectFromNpmLockV2Plus(input.lock, <<>>)]
  /\ UNCHANGED <<handlerVars, input, parked>>

\* collectFromNpmLockV1(lock, new Set())
ApplyNpmV1 ==
  /\ input.dialect = "npm-v1"
  /\ ~output.applied
  /\ output' = [applied |-> TRUE, deps |-> collectFromNpmLockV1(input.lock, <<>>)]
  /\ UNCHANGED <<handlerVars, input, parked>>

\* collectFromPnpmLock(raw, new Set())
ApplyPnpm ==
  /\ input.dialect = "pnpm"
  /\ ~output.applied
  /\ output' = [applied |-> TRUE, deps |-> collectFromPnpmLock(input.text, <<>>)]
  /\ UNCHANGED <<handlerVars, input, parked>>

ParserNext ==
  \/ ApplyYarn
  \/ ApplyNpmV2Plus
  \/ ApplyNpmV1
  \/ ApplyPnpm

ParserSpec == ParserInit /\ [][ParserNext]_vars

(***************************************************************************)
(* Properties.                                                             *)
(***************************************************************************)
SinkCalls == {"checks.create", "issues.createComment", "checks.update"}

Conclusions == {"success", "failure", "neutral"}

\* The freshness loop is over.
FreshnessOver == pc \in {"comment", "update", "done"}

\* C1: once the check run exists in state in_progress, the handler goes on
\* until it has issued its terminal update, unless a call of the check/report
\* sink itself is rejected; a finished invocation has issued exactly one
\* update, with conclusion success, failure or neutral, that completed the
\* check; and an invocation never ends in an unhandled fault raised by the
\* content provider, the registry or a parser: the only rejections that leave
\* the handler are those of the sink's own calls.
C1_TerminalUpdate ==
  /\ (check.status = "in_progress") ~> (check.status = "completed" \/ fault \in SinkCalls)
  /\ [](pc = "done" => /\ Len(updates) = 1
                       /\ updates[1] \in Conclusions
                       /\ check.status = "completed"
                       /\ check.conclusion = updates[1])
  /\ [](Len(updates) <= 1)
  /\ [](pc = "faulted" => fault \in SinkCalls)

\* C1 witness: an invocation that finished although a lockfile failed to
\* parse and a registry request was rejected.
C1_Witness ==
  /\ pc = "done"
  /\ \E i \in 1..Len(reads) : reads[i].result = "failed"
  /\ \E j \in 1..Len(lookups) : lookups[j].meta.fetch = "throws"

\* C2: with a non-empty dependency set, the terminal conclusion is failure
\* exactly when at least one violation was recorded and success exactly when
\* none was.
C2_ConclusionByViolations ==
  (pc = "done" /\ Len(deps) > 0) =>
     /\ (check.conclusion = "failure" <=> Len(violations) >= 1)
     /\ (check.conclusion = "success" <=> Len(violations) = 0)

\* C2 witness: a finished invocation that recorded a violation.
C2_Witness ==
  pc = "done" /\ Len(deps) > 0 /\ Len(violations) >= 1 /\ check.conclusion = "failure"

\* C3 (as claimed): an invocation in which some lockfile was fetched and
\* parsed without error, be it to zero entries, ends in success or failure;
\* one that found no lockfile at all ends in neutral with the summary
\* "No lockfile parsed".
C3_NeutralOnlyUnparsed ==
  pc = "done" =>
     /\ (\E i \in 1..Len(reads) : reads[i].result = "parsed")
          => check.conclusion \in {"success", "failure"}
     /\ ((\A i \in 1..Len(reads) : reads[i].result = "absent") /\ lockfiles = <<>>)
          => (check.conclusion = "neutral" /\ check.summary = "No lockfile parsed")

\* The violation list holds the package a registry request was made for.
InViolations(l) ==
  \E k \in 1..Len(violations) :
    violations[k].name = l.name /\ violations[k].version = l.version

\* The registry answered the request with success status and a publish time
\* for exactly the version asked about, less than the window before now.
PublishedWithinWindow(l) ==
  /\ l.meta.fetch = "responds"
  /\ l.meta.ok
  /\ \E n \in 1..Len(l.meta.time) :
       /\ l.meta.time[n].version = l.version
       /\ l.meta.time[n].ts.present
       /\ l.meta.time[n].ts.valid
       /\ now - l.meta.time[n].ts.ms < WINDOW_MS

\* C4: a dependency name@version the loop has come to is in the violation
\* list exactly when the registry answered with success status and a publish
\* time for that very version that lies less than 24 hours before now; every
\* violation stems from such a request.
C4_ViolationIffFresh ==
  /\ \A j \in 1..Len(lookups) :
       /\ lookups[j].spec = SpecOf(lookups[j].name, lookups[j].version)
       /\ lookups[j].spec \in Range(deps)
       /\ InViolations(lookups[j]) <=> PublishedWithinWindow(lookups[j])
  /\ \A k \in 1..Len(violations) :
       \E j \in 1..Len(lookups) :
         /\ violations[k].name = lookups[j].name
         /\ violations[k].version = lookups[j].version

\* C4 witness: one version published an hour ago is a violation, another
\* published 48 hours ago is not.
C4_Witness ==
  \E j, k \in 1..Len(lookups) :
    /\ lookups[j].meta.time = <<[version |-> lookups[j].version, ts |-> Ts(now - HourMs)]>>
    /\ lookups[j].meta.ok
    /\ InViolations(lookups[j])
    /\ lookups[k].meta.time = <<[version |-> lookups[k].version, ts |-> Ts(now - 48 * HourMs)]>>
    /\ lookups[k].meta.ok
    /\ ~InViolations(lookups[k])

\* A root-level candidate left at least one dependency in the set.
FastPathYielded ==
  \E i \in 1..Len(reads) : reads[i].phase = "root" /\ reads[i].after > 0

\* The full-tree scan was started.
ScanInvoked ==
  \/ scans.getCommit > 0
  \/ scans.getTree > 0
  \/ \E i \in 1..Len(reads) : reads[i].phase = "fallback"

\* C5: the full-tree scan (getCommit, getTree, the reads of what they list)
\* is started only after all three root candidates were tried and left the
\* set empty, and at most once; when the fast path yielded a dependency it
\* is never started.
C5_FallbackOrdering ==
  /\ (ScanInvoked \/ pc \in {"scan", "fallback"}) =>
        /\ ~FastPathYielded
        /\ Len(SelectSeq(reads, LAMBDA r : r.phase = "root")) = Len(RootPaths)
  /\ scans.getCommit <= 1
  /\ scans.getTree <= scans.getCommit

\* C5 witness: a finished invocation whose fast path yielded a dependency,
\* and no scan.
C5_Witness == pc = "done" /\ FastPathYielded /\ ~ScanInvoked

\* C6 (as claimed): when the freshness check starts the dependency set
\* holds at most the configured maximum of entries.
C6_SetCapped == (pc = "fresh" /\ lookups = <<>>) => Len(deps) <= SAFETY_CAP

\* C7: the violation list never holds more than MAX_VIOLATIONS entries, and
\* once it holds that many the loop has stopped: the request that recorded
\* the last violation is the last request made.
C7_ViolationCap ==
  /\ Len(violations) <= MAX_VIOLATIONS
  /\ Len(violations) >= MAX_VIOLATIONS =>
        /\ pc # "fresh"
        /\ lookups # <<>>
        /\ lookups[Len(lookups)].name = violations[Len(violations)].name
        /\ lookups[Len(lookups)].version = violations[Len(violations)].version

\* C7 witness: a finished invocation that hit the cap with dependencies left
\* over.
C7_Witness ==
  pc = "done" /\ Len(violations) = MAX_VIOLATIONS /\ Len(lookups) < Len(deps)

\* The number of entries of deps the freshness loop has dealt with.
Iterated ==
  IF pc \in {"idle", "start", "root", "scan", "fallback"} \/ Len(deps) = 0 THEN 0
  ELSE IF pc = "fresh" THEN depIdx - 1
  ELSE depIdx

\* The split of spec at its last "@" is meaningful.
Splittable(spec) == lastIndexOf(spec, "@") > 0

\* C8 (as claimed): when the freshness phase is over every DependencySpec
\* of the set (every entry with a name before its last "@") has been looked
\* up exactly once.
C8_EveryDepLookedUp ==
  FreshnessOver =>
     \A i \in 1..Len(deps) :
       Splittable(deps[i]) =>
         Cardinality({j \in 1..Len(lookups) : lookups[j].spec = deps[i]}) = 1

\* C8 (amended): the requests made are, in order and once each, those for
\* the entries the loop has dealt with that have an "@" after index 0,
\* whatever the answers to the earlier requests were; and the loop stops
\* before the end of the set only when MAX_VIOLATIONS violations are
\* recorded.
C8_LookupsIndependent ==
  /\ [j \in 1..Len(lookups) |-> lookups[j].spec]
       = SelectSeq(SubSeq(deps, 1, Iterated), Splittable)
  /\ FreshnessOver => (Iterated = Len(deps) \/ Len(violations) = MAX_VIOLATIONS)

\* C8 witness: a finished invocation whose first request was rejected and
\* whose second was answered with a non-success status.
C8_Witness ==
  /\ pc = "done"
  /\ Len(lookups) >= 2
  /\ lookups[1].meta.fetch = "throws"
  /\ lookups[2].meta.fetch = "responds" /\ ~lookups[2].meta.ok

\* C9 (as claimed): for a stanza whose first selector is the scoped name
\* @scope/name@range and whose body holds version "x", collectFromYarnLock
\* adds exactly @scope/name@x.
C9_YarnScopedName ==
  (output.applied /\ input.dialect = "yarn") =>
     output.deps = <<SpecOf("@" \o input.scope \o "/" \o input.name, input.version)>>

\* The keys of lock.packages whose entry has a version, by position.
VersionedKeys(lock) ==
  {i \in 1..Len(lock.packages) : lock.packages[i].version # ""}

\* The name@version strings the entries with a version stand for.
VersionedSpecs(lock) ==
  {SpecOf(IF lock.packages[i].key = "" THEN lock.name
          ELSE IF /\ Len(lock.packages[i].key) >= 13
                  /\ SubSeq(lock.packages[i].key, 1, 13) = "node_modules/"
          THEN SubSeq(lock.packages[i].key, 14, Len(lock.packages[i].key))
          ELSE lock.packages[i].key,
          lock.packages[i].version) : i \in VersionedKeys(lock)}

\* C10 (as claimed): the number of entries collectFromNpmLockV2Plus adds to
\* an empty set is the number of keys of packages whose entry has a version.
C10_CountEqualsKeys ==
  (output.applied /\ input.dialect = "npm-v2plus") =>
     Len(output.deps) = Cardinality(VersionedKeys(input.lock))

\* C10 (amended): the entries added are the distinct name@version strings of
\* the keys whose entry has a version (the root key under the lockfile's
\* name, every other key without a leading node_modules/), each once: as
\* many as there are such keys unless two keys stand for the same string.
C10_CountEqualsDistinctSpecs ==
  (output.applied /\ input.dialect = "npm-v2plus") =>
     /\ Range(output.deps) = VersionedSpecs(input.lock)
     /\ Len(output.deps) = Cardinality(VersionedSpecs(input.lock))
     /\ Len(output.deps) <= Cardinality(VersionedKeys(input.lock))

\* C10 witness: a lockfile with the root key, a nested node_modules path and
\* a link, where two keys stand for the same name@version.
C10_Witness ==
  /\ output.applied
  /\ input.dialect = "npm-v2plus"
  /\ Cardinality(VersionedKeys(input.lock)) = 4
  /\ Len(input.lock.packages) = 5
  /\ Len(output.deps) = 3
  /\ "a/node_modules/b@2.0.0" \in Range(output.deps)
  /\ "app@1.0.0" \in Range(output.deps)

\* The text up to and including its last closing brace.
TruncateAtLastBrace(t) == slice(t, 0, lastIndexOf(t, "}") + 1)

\* The documents whose text is t and which JSON.parse accepts.
StrictJson(t) == {d \in NpmDocs("small") : ~d.throws /\ d.text = t}

\* C11 (as claimed): when the text of a package-lock.json fails strict JSON
\* parsing, the text cut after its last closing brace is parsed instead, and
\* if that is valid JSON its dependencies are added to the set (here: to the
\* empty set the lockfile found); the lockfile adds nothing only when the
\* cut text is not valid JSON either.
C11_TruncateRetry ==
  \A i \in 1..Len(reads) :
    (/\ endsWith(reads[i].path, "package-lock.json")
     /\ reads[i].text # ""
     /\ StrictJson(reads[i].text) = {}
     /\ reads[i].before = 0) =>
       /\ \A d \in StrictJson(TruncateAtLastBrace(reads[i].text)) :
            reads[i].after = Len(ParsePackageLock(d, <<>>).deps)
       /\ StrictJson(TruncateAtLastBrace(reads[i].text)) = {} => reads[i].after = 0

\* C12: when getCommit or getTree rejects in the full-tree scan, no lockfile
\* of the tree is read, the set stays empty, no registry request is made,
\* and the handler goes on to the neutral report: an invocation that ends
\* has completed the check as neutral with the summary "No lockfile parsed",
\* and the rejection itself never leaves the handler.
C12_DiscoveryFailureNeutral ==
  scans.error # "none" =>
     /\ deps = <<>>
     /\ lookups = <<>>
     /\ \A i \in 1..Len(reads) : reads[i].phase # "fallback"
     /\ pc \in {"neutral_comment", "neutral_update", "done", "faulted"}
     /\ pc = "done" => /\ updates = <<"neutral">>
                       /\ check.status = "completed"
                       /\ check.conclusion = "neutral"
                       /\ check.summary = "No lockfile parsed"
     /\ pc = "faulted" => fault \in {"issues.createComment", "checks.update"}

\* C12 witness: an invocation that ended after the tree listing threw.
C12_Witness ==
  /\ pc = "done"
  /\ scans = [getCommit |-> 1, getTree |-> 1, error |-> "getTree"]
  /\ check.conclusion = "neutral"

\* The package names and versions the document given to the parser holds,
\* as pairs <<n, v>>.
Origins ==
  IF input.dialect = "npm-v1" THEN {<<input.name, input.version>>}
  ELSE IF input.dialect = "pnpm"
  THEN (IF input.shape \in {"pair", "crlf"} THEN {<<input.name, input.version>>} ELSE {})
  ELSE IF input.dialect = "yarn"
  THEN {<<"@" \o input.scope \o "/" \o input.name, input.version>>}
  ELSE {<<V2Name(input.lock, input.lock.packages[i].key), input.lock.packages[i].version>> :
          i \in VersionedKeys(input.lock)}

\* C13 (as claimed): every entry a parser adds for a package n at version v
\* is split by the freshness check, at its last "@", into exactly n and v.
C13_SplitRoundTrip ==
  output.applied =>
     \A i \in 1..Len(output.deps) :
       /\ Splittable(output.deps[i])
       /\ <<SplitName(output.deps[i]), SplitVersion(output.deps[i])>> \in Origins

\* C14 (as claimed): a root-level candidate that left the set non-empty is
\* the last lockfile read: no later root candidate is fetched or parsed, and
\* none adds to the set.
C14_FastPathStops ==
  \A i \in 1..Len(reads) :
    (reads[i].phase = "root" /\ reads[i].after > 0) => i = Len(reads)

\* The ways through readTextFileFromRepo on which no file content arrives.
AbsentTransports ==
  {"getContent throws", "directory", "no content", "download not ok", "download throws"}

RootReads == SelectSeq(reads, LAMBDA r : r.phase = "root")

FallbackReads == SelectSeq(reads, LAMBDA r : r.phase = "fallback")

\* C16: a read on which getContent rejects, the path is a directory, there
\* is neither content nor a download URL, or the download fails or rejects,
\* comes to absence and adds nothing; no rejection of a read leaves the
\* handler; and the loops go on after it: the root loop reads all three
\* candidates, the fallback loop every lockfile of the tree unless the set
\* has grown beyond the safety cap.
C16_ReadNeverThrows ==
  /\ \A i \in 1..Len(reads) :
       reads[i].transport \in AbsentTransports =>
         reads[i].result = "absent" /\ reads[i].after = reads[i].before
  /\ pc = "faulted" => fault \in SinkCalls
  /\ Len(RootReads) = (IF pc = "root" THEN rootIdx - 1
                       ELSE IF check.status = "none" THEN 0 ELSE Len(RootPaths))
  /\ [k \in 1..Len(RootReads) |-> RootReads[k].path] = SubSeq(RootPaths, 1, Len(RootReads))
  /\ pc = "fallback" => Len(FallbackReads) = lfIdx - 1
  /\ (pc \notin {"scan", "fallback"} /\ lockfiles # <<>>) =>
        \/ Len(FallbackReads) = Len(lockfiles)
        \/ reads[Len(reads)].after > SAFETY_CAP

\* C16 witness: a finished invocation whose first root read came to absence,
\* whose second was parsed to a dependency, and whose third failed in the
\* secondary download.
C16_Witness ==
  /\ pc = "done"
  /\ Len(reads) = 3
  /\ reads[1].result = "absent"
  /\ reads[2].result = "parsed" /\ reads[2].after > 0
  /\ reads[3].transport = "download throws" /\ reads[3].result = "absent"

\* The read met a malformed document: invalid JSON or JSON null (the parse
\* fails), a JSON scalar, or text without any stanza.
Malformed(r) ==
  \/ r.result = "failed"
  \/ r.text \in {NpmScalarDoc.text, YarnCommentDoc.text}

\* Candidates of the read's phase are left after it.
CandidatesLeft(r) ==
  IF r.phase = "root" THEN Len(RootReads) < Len(RootPaths)
  ELSE Len(FallbackReads) < Len(lockfiles)

\* C17: a malformed lockfile adds nothing and leaves the set as the earlier
\* lockfiles made it, and the loop that read it goes on to the next
\* candidate of its phase.
C17_MalformedIsolated ==
  /\ [](\A i \in 1..Len(reads) :
          Malformed(reads[i]) =>
            /\ reads[i].after = reads[i].before
            /\ (i = Len(reads) /\ CandidatesLeft(reads[i])) =>
                  pc = (IF reads[i].phase = "root" THEN "root" ELSE "fallback"))
  /\ [][(Len(reads') = Len(reads) + 1 /\ Malformed(reads'[Len(reads')])) => deps' = deps]_vars

\* C17 witness: a finished invocation in which the root package-lock.json
\* failed to parse and the next root candidate was parsed all the same, and
\* in which a lockfile of the tree failed to parse after another had added
\* an entry, which stayed.
C17_Witness ==
  /\ pc = "done"
  /\ Len(reads) = 5
  /\ reads[1].result = "failed"
  /\ reads[2].result = "parsed"
  /\ reads[4].result = "parsed" /\ reads[4].after = 1
  /\ reads[5].result = "failed" /\ reads[5].before = 1 /\ reads[5].after = 1
  /\ Len(deps) = 1

\* C18: the lockfiles of the tree are read in the order findLockfiles
\* listed them; a lockfile after which the set holds more than SAFETY_CAP
\* entries is the last one read, and the handler goes on with the freshness
\* check and its report (never with the neutral report, and with no fault
\* but a rejected sink call); and the loop leaves lockfiles unread for no
\* other reason.
C18_CapStopsFallback ==
  /\ Len(FallbackReads) <= Len(lockfiles)
  /\ [k \in 1..Len(FallbackReads) |-> FallbackReads[k].path]
       = SubSeq(lockfiles, 1, Len(FallbackReads))
  /\ \A k \in 1..Len(FallbackReads) :
       FallbackReads[k].after > SAFETY_CAP =>
         /\ k = Len(FallbackReads)
         /\ pc \in {"fresh", "comment", "update", "done", "faulted"}
         /\ pc = "faulted" => fault \in {"issues.createComment", "checks.update"}
         /\ pc = "done" => check.conclusion \in {"success", "failure"}
  /\ (pc \notin {"scan", "fallback"} /\ Len(FallbackReads) < Len(lockfiles)) =>
        FallbackReads[Len(FallbackReads)].after > SAFETY_CAP

\* C18 witness: a finished invocation that read the first of two lockfiles
\* of the tree, found more than SAFETY_CAP entries in it, left the second
\* unread and made registry requests.
C18_Witness ==
  /\ pc = "done"
  /\ Len(lockfiles) = 2
  /\ Len(FallbackReads) = 1
  /\ FallbackReads[1].after > SAFETY_CAP
  /\ lookups # <<>>
  /\ check.conclusion = "failure"

\* C19 (as claimed): from a document with one key line and the line after
\* it, collectFromPnpmLock adds key@v exactly when the key line is a
\* two-space-indented key ending in a colon and the next line holds the field
\* version: v, whatever the key begins with, and nothing otherwise.
C19_PnpmPairs ==
  (output.applied /\ input.dialect = "pnpm") =>
     output.deps = (IF input.shape \in {"pair", "crlf"}
                    THEN <<SpecOf(input.name, input.version)>>
                    ELSE <<>>)

\* The invocation took the neutral path.
OnNeutralPath ==
  \/ pc \in {"neutral_comment", "neutral_update"}
  \/ comments = <<"lockfile not parsed">>
  \/ check.conclusion = "neutral"

\* C20: an invocation posts at most one comment; the terminal update is
\* issued only after it, so that an invocation that has ended with its
\* update has posted exactly one (an invocation ends without a comment only
\* when a call of the sink was rejected); and an invocation on the neutral
\* path has made no registry request, up to its end.
C20_OneCommentBeforeUpdate ==
  /\ Len(comments) <= 1
  /\ pc \in {"neutral_update", "update"} => Len(comments) = 1 /\ updates = <<>>
  /\ updates # <<>> => Len(comments) = 1
  /\ pc = "done" => Len(comments) = 1 /\ Len(updates) = 1
  /\ (pc = "faulted" /\ comments = <<>>) =>
        fault \in {"checks.create", "issues.createComment"}
  /\ OnNeutralPath => lookups = <<>>
  /\ check.conclusion = "neutral" <=> (updates # <<>> /\ comments = <<"lockfile not parsed">>)

\* C20 witness: an invocation that ended on the neutral path, with its one
\* comment and no registry request.
C20_Witness ==
  /\ pc = "done"
  /\ comments = <<"lockfile not parsed">>
  /\ updates = <<"neutral">>
  /\ lookups = <<>>
  /\ Len(reads) >= 3

\* The document the pair world holds at a path.
DocAt(path) == CHOOSE d \in Docs("pair", path) : TRUE

\* The dependency set an invocation running alone builds from the reads rs:
\* the parsers applied, in turn, to the documents that were served.
RECURSIVE AloneDeps(_)
AloneDeps(rs) ==
  IF rs = <<>> THEN <<>>
  ELSE LET r == rs[Len(rs)]
           prev == AloneDeps(SubSeq(rs, 1, Len(rs) - 1))
       IN IF r.result = "absent" THEN prev
          ELSE IF r.phase = "root" THEN ParseRoot(r.path, DocAt(r.path), prev).deps
          ELSE ParseFallback(r.path, DocAt(r.path), prev).deps

\* The violation list an invocation running alone makes of the registry
\* answers it got.
AloneViolations(ls) ==
  LET hits == SelectSeq(ls, LAMBDA l : RecordsViolation(l.meta, l.version, ClockNow))
  IN [k \in 1..Len(hits) |->
        [name |-> hits[k].name, version |-> hits[k].version,
         ts |-> TimeOf(hits[k].meta, hits[k].version)]]

\* The conclusion an invocation running alone comes to.
AloneConclusion(rs, ls) ==
  IF AloneDeps(rs) = <<>> THEN "neutral"
  ELSE IF AloneViolations(ls) # <<>> THEN "failure" ELSE "success"

\* The invocation s is where it would be had it run alone and been given
\* the same documents and registry answers.
AsAlone(s) ==
  /\ s.deps = AloneDeps(s.reads)
  /\ Len(s.lookups) <= Len(s.deps)
  /\ \A j \in 1..Len(s.lookups) : s.lookups[j].spec = s.deps[j]
  /\ s.violations = AloneViolations(s.lookups)
  /\ s.pc = "done" =>
        /\ s.check.conclusion = AloneConclusion(s.reads, s.lookups)
        /\ s.updates = <<AloneConclusion(s.reads, s.lookups)>>
        /\ s.check.conclusion # "neutral" => Len(s.lookups) = Len(s.deps)

\* C15: of two invocations interleaved at their awaits, each has the
\* dependency set, the violation list and the conclusion it would have had
\* running alone on the documents and registry answers it was given.
C15_InvocationsIndependent == AsAlone(Current) /\ AsAlone(parked)

\* C15 witness: both invocations have ended, one with a violation for a
\* package of its package-lock.json, the other without any for the package
\* of its yarn.lock.
C15_Witness ==
  /\ pc = "done"
  /\ parked.pc = "done"
  /\ deps = <<"a@1.0.0">>
  /\ check.conclusion = "failure"
  /\ parked.deps = <<"b@2.0.0">>
  /\ parked.check.conclusion = "success"
====
